---------------------------- MODULE Spec2Model ----------------------------
(***************************************************************************)
(* State-machine model of the gk_group_app Django application:             *)
(*   - the contact-submission pipeline of views.contact and                *)
(*     views.contact_form_ajax (validate, persist, notify, respond);       *)
(*   - the ContactMessage table and the admin operations that mutate it;   *)
(*   - the SiteContent table and SiteContent.get_content.                  *)
(*                                                                         *)
(* Requests run concurrently: every statement of a view that touches the   *)
(* database, the clock or the mail transport is a step of its own, so the  *)
(* steps of different requests interleave freely.  Model.save() and        *)
(* QuerySet.update() are single atomic steps (one SQL statement each).     *)
(* timezone.now() is read from a clock that never runs backwards.          *)
(***************************************************************************)
EXTENDS Integers, Sequences, FiniteSets

VARIABLES
    clock,        \* timezone.now()
    messages,     \* ContactMessage table: sequence of rows in insertion order
    nextId,       \* the table's auto-increment primary-key counter
    req,          \* per request slot: position in the view, locals, response
    mailLog,      \* calls of send_contact_email_notification, in order
    adm,          \* per admin request slot: the loaded model instance
    siteContent,  \* SiteContent table: set of rows
    lastGet,      \* the last SiteContent.get_content call and its result
    news,         \* per request slot: a newsletter_subscribe request and its answer
    home          \* the context of the last rendering of the home page

vars == <<clock, messages, nextId, req, mailLog, adm, siteContent, lastGet, news, home>>

---------------------------------------------------------------------------
(* Bounds of the model *)

MaxReq == 2      \* contact submissions per behaviour
MaxTime == 1     \* clock ticks per behaviour
MaxAdmin == 1    \* concurrent per-object admin requests
MaxRows == 1     \* rows of the table while the admin operations are explored

Reqs == 1..MaxReq
Admins == 1..MaxAdmin

---------------------------------------------------------------------------
(* Field rules of ContactMessage (models.py) *)

NameMaxLength == 100
MessageMinLength == 10
MessageMaxLength == 2000

Letters ==
    {"a","b","c","d","e","f","g","h","i","j","k","l","m","n","o","p","q","r",
     "s","t","u","v","w","x","y","z","A","B","C","D","E","F","G","H","I","J",
     "K","L","M","N","O","P","Q","R","S","T","U","V","W","X","Y","Z"}
Digits == {"0","1","2","3","4","5","6","7","8","9"}
Whitespace == {" ", "\t", "\n"}

\* mutant: the pattern also admits digits, r'^[a-zA-Z\d\s\.]+$'
NameRegexOk_digits(name) ==
    /\ Len(name) > 0
    /\ \A i \in 1..Len(name) :
          name[i] \in Letters \cup Digits \cup Whitespace \cup {"."}

\* RegexValidator r'^[a-zA-Z\s\.]+$' on a name given as its characters
NameRegexOk(name) ==
    /\ Len(name) > 0
    /\ \A i \in 1..Len(name) : name[i] \in Letters \cup Whitespace \cup {"."}

\* RegexValidator r'^[\d\+\-\s\(\)]+$' on a phone number given as its characters
PhoneRegexOk(phone) ==
    /\ Len(phone) > 0
    /\ \A i \in 1..Len(phone) :
          phone[i] \in Digits \cup Whitespace \cup {"+", "-", "(", ")"}

\* mutant: both limits are exclusive
MessageLengthOk_exclusive(message) ==
    /\ message.length > MessageMinLength
    /\ message.length < MessageMaxLength

\* a message is its text and the number of characters of that text
MessageLengthOk(message) ==
    /\ message.length >= MessageMinLength
    /\ message.length <= MessageMaxLength

InterestChoices == {"general", "gk_textiles", "gk_steels", "partnership", "feedback"}
DefaultSubject == "General Inquiry"
DefaultInterest == "general"

\* EmailField: the sample addresses the e-mail validator accepts
WellFormedEmails == {"john@x.com", "mary@y.org"}
EmailOk(email) == email \in WellFormedEmails

---------------------------------------------------------------------------
(* ContactForm (forms.py): which fields of a submission are in error, and  *)
(* the cleaned values it hands to the model instance.  An omitted field is *)
(* the empty string (the empty sequence for name and phone).               *)

FieldErrors(form) ==
    (IF Len(form.name) <= NameMaxLength /\ NameRegexOk(form.name) THEN {} ELSE {"name"})
    \cup (IF EmailOk(form.email) THEN {} ELSE {"email"})
    \cup (IF form.phone = <<>> \/ PhoneRegexOk(form.phone) THEN {} ELSE {"phone"})
    \cup (IF MessageLengthOk(form.message) THEN {} ELSE {"message"})
    \cup (IF form.interest_area \in InterestChoices \cup {""} THEN {} ELSE {"interest_area"})

is_valid(form) == FieldErrors(form) = {}

Cleaned(form) ==
    [name |-> form.name, email |-> form.email, phone |-> form.phone,
     message |-> form.message,
     subject |-> IF form.subject = "" THEN DefaultSubject ELSE form.subject,
     interest_area |-> IF form.interest_area = "" THEN DefaultInterest
                       ELSE form.interest_area]

---------------------------------------------------------------------------
(* Inputs of a submission *)

John == <<"J","o","h","n"," ","S","m","i","t","h">>
Quote == [text |-> "Hello, I need a quote.", length |-> 22]

ValidForms ==
    { \* the minimal valid submission of the documented scenario
      [name |-> John, email |-> "john@x.com", phone |-> <<>>, subject |-> "",
       message |-> Quote, interest_area |-> ""],
      \* a valid submission with every field given
      [name |-> <<"D","r","."," ","M">>, email |-> "mary@y.org",
       phone |-> <<"+","9","1"," ","(","0",")","-","2">>, subject |-> "Steel rods",
       message |-> [text |-> "Please send your price list", length |-> 27],
       interest_area |-> "gk_steels"] }

InvalidForms ==
    { \* invalid name and message
      [name |-> <<"J","o","h","n","1","2","3">>, email |-> "john@x.com",
       phone |-> <<>>, subject |-> "", message |-> [text |-> "short", length |-> 5],
       interest_area |-> ""],
      \* invalid e-mail address and phone number
      [name |-> John, email |-> "not-an-address", phone |-> <<"c","a","l","l">>,
       subject |-> "Hi", message |-> Quote, interest_area |-> "feedback"] }

Forms == ValidForms \cup InvalidForms

DirectMeta == [xff |-> <<>>, remote_addr |-> "10.0.0.1", user_agent |-> "Mozilla"]
ProxiedMeta ==
    [xff |-> <<"203.0.113.7", "10.0.0.2">>, remote_addr |-> "10.0.0.2", user_agent |-> ""]

\* request.META of a submission: submissions with every field given come
\* through the proxy, the others directly
MetaOf(form) == IF form.subject = "" THEN DirectMeta ELSE ProxiedMeta

\* request.META['HTTP_X_FORWARDED_FOR'] is given already split at the commas
get_client_ip(meta) ==
    IF meta.xff # <<>> THEN Head(meta.xff) ELSE meta.remote_addr

---------------------------------------------------------------------------
(* ContactMessage instances and the table *)

\* ContactMessage(): the field defaults; pk = 0 is an unsaved instance
NewInstance(now) ==
    [pk |-> 0, name |-> <<>>, email |-> "", phone |-> <<>>,
     message |-> [text |-> "", length |-> 0],
     subject |-> DefaultSubject, interest_area |-> DefaultInterest,
     ip_address |-> "", user_agent |-> "",
     is_read |-> FALSE, is_archived |-> FALSE,
     created_at |-> now, updated_at |-> 0]

\* ContactForm(request.POST) builds the instance, form.save(commit=False)
\* copies the cleaned values into it
FormInstance(form, now) ==
    LET c == Cleaned(form) IN
    [NewInstance(now) EXCEPT !.name = c.name, !.email = c.email, !.phone = c.phone,
                             !.message = c.message, !.subject = c.subject,
                             !.interest_area = c.interest_area]

Pks(table) == {table[i].pk : i \in DOMAIN table}
RowsOf(table, pk) == {i \in DOMAIN table : table[i].pk = pk}
Row(table, pk) == table[CHOOSE i \in DOMAIN table : table[i].pk = pk]

\* mutant: the save also stamps created_at, as auto_now on both fields would
AutoNow_touchCreated(obj, now) == [obj EXCEPT !.updated_at = now, !.created_at = now]

\* mutant: save() without the auto_now stamp
AutoNow_skipped(obj, now) == obj

\* DateTimeField(auto_now=True).pre_save: the value save() writes
AutoNow(obj, now) == [obj EXCEPT !.updated_at = now]

\* mutant: a submission equal in content to a stored one is not inserted again
SaveInsert_dedup(table, obj, pk, now) ==
    IF \E i \in DOMAIN table :
          /\ table[i].name = obj.name /\ table[i].email = obj.email
          /\ table[i].message = obj.message
    THEN table
    ELSE Append(table, [obj EXCEPT !.pk = pk, !.updated_at = now])

\* Model.save() of an unsaved instance: INSERT with the next primary key
SaveInsert(table, obj, pk, now) ==
    Append(table, AutoNow([obj EXCEPT !.pk = pk], now))

\* Model.save() of a loaded instance: UPDATE of every field WHERE pk = obj.pk
SaveUpdate(table, obj, now) ==
    [i \in DOMAIN table |->
        IF table[i].pk = obj.pk THEN AutoNow(obj, now) ELSE table[i]]

\* QuerySet.update(field=value) on the rows whose pk is in sel; no pre_save
QuerysetUpdate(table, sel, field, value) ==
    [i \in DOMAIN table |->
        IF table[i].pk \in sel THEN [table[i] EXCEPT ![field] = value] ELSE table[i]]

---------------------------------------------------------------------------
(* Responses *)

ThanksMessage == "Thank you for contacting us! We will get back to you within 24 hours."
CorrectMessage == "Please correct the errors below."
PageSorryMessage ==
    "Sorry, there was an error sending your message. Please try again or call us directly."
AjaxSorryMessage == "Sorry, there was an error sending your message. Please try again."

NoResponse ==
    [kind |-> "none", flash |-> "none", success |-> "none", message |-> "", errors |-> {}]

\* views.contact: messages.success + redirect('contact')
PageSuccess ==
    [kind |-> "redirect", flash |-> "success", success |-> "none",
     message |-> ThanksMessage, errors |-> {}]
\* views.contact: the except branch, then the page is rendered again (the
\* rendering reads SiteContent and writes nothing)
PageException ==
    [kind |-> "render", flash |-> "error", success |-> "none",
     message |-> PageSorryMessage, errors |-> {}]
\* views.contact: the form is invalid, the page is rendered with the bound form
PageInvalid(form) ==
    [kind |-> "render", flash |-> "error", success |-> "none",
     message |-> CorrectMessage, errors |-> FieldErrors(form)]

\* views.contact_form_ajax: the marker header is missing
AjaxBadRequest ==
    [kind |-> "bad_request", flash |-> "none", success |-> "none",
     message |-> "Invalid request", errors |-> {}]
AjaxSuccess ==
    [kind |-> "json", flash |-> "none", success |-> "true",
     message |-> ThanksMessage, errors |-> {}]
AjaxException ==
    [kind |-> "json", flash |-> "none", success |-> "false",
     message |-> AjaxSorryMessage, errors |-> {}]
AjaxInvalid(form) ==
    [kind |-> "json", flash |-> "none", success |-> "false",
     message |-> CorrectMessage, errors |-> FieldErrors(form)]

SuccessResponse(flow) == IF flow = "page" THEN PageSuccess ELSE AjaxSuccess
ExceptionResponse(flow) == IF flow = "page" THEN PageException ELSE AjaxException

---------------------------------------------------------------------------
(* Initial state *)

BlankForm ==
    [name |-> <<>>, email |-> "", phone |-> <<>>, subject |-> "",
     message |-> [text |-> "", length |-> 0], interest_area |-> ""]
BlankMeta == [xff |-> <<>>, remote_addr |-> "", user_agent |-> ""]

IdleRequest ==
    [pc |-> "idle", flow |-> "none", xhr |-> FALSE, form |-> BlankForm,
     meta |-> BlankMeta,
     obj |-> NewInstance(0), resp |-> NoResponse]

IdleAdmin == [pc |-> "idle", obj |-> NewInstance(0)]

NoGet == [called |-> FALSE, key |-> "", default |-> "", result |-> ""]

NoNewsResponse ==
    [status |-> 0, kind |-> "none", success |-> "none", message |-> "", logged |-> <<>>]
IdleNews ==
    [pc |-> "idle", xhr |-> FALSE, body |-> [kind |-> "none", email |-> <<>>],
     resp |-> NoNewsResponse]

NoHome ==
    [rendered |-> FALSE, hero_title |-> "", hero_subtitle |-> "",
     recent_messages_count |-> 0]

Init ==
    /\ clock = 0
    /\ messages = <<>>
    /\ nextId = 1
    /\ req = [r \in Reqs |-> IdleRequest]
    /\ mailLog = <<>>
    /\ adm = [a \in Admins |-> IdleAdmin]
    /\ siteContent = {}
    /\ lastGet = NoGet
    /\ news = [r \in Reqs |-> IdleNews]
    /\ home = NoHome

---------------------------------------------------------------------------
(* The submission pipeline *)

\* views.contact, POST: build the form and validate it
contact(r, form, meta) ==
    /\ req[r].pc = "idle"
    /\ req' = [req EXCEPT ![r] =
          IF is_valid(form)
          THEN [pc |-> "Validated", flow |-> "page", xhr |-> FALSE, form |-> form, meta |-> meta,
                obj |-> FormInstance(form, clock), resp |-> NoResponse]
          ELSE [pc |-> "ValidationFailed", flow |-> "page", xhr |-> FALSE, form |-> form,
                meta |-> meta, obj |-> NewInstance(clock),
                resp |-> PageInvalid(form)]]
    /\ UNCHANGED <<news, home, clock, messages, nextId, mailLog, adm, siteContent, lastGet>>

\* mutant: the AJAX view saves without asking form.is_valid()
contact_form_ajax_unchecked(r, xhr, form, meta) ==
    /\ req[r].pc = "idle"
    /\ req' = [req EXCEPT ![r] =
          IF ~xhr
          THEN [pc |-> "Rejected", flow |-> "ajax", xhr |-> xhr, form |-> form, meta |-> meta,
                obj |-> NewInstance(0), resp |-> AjaxBadRequest]
          ELSE [pc |-> "Validated", flow |-> "ajax", xhr |-> xhr, form |-> form, meta |-> meta,
                obj |-> FormInstance(form, clock), resp |-> NoResponse]]
    /\ UNCHANGED <<news, home, clock, messages, nextId, mailLog, adm, siteContent, lastGet>>

\* mutant: the AJAX view without the check of the marker header
contact_form_ajax_nomarker(r, xhr, form, meta) ==
    /\ req[r].pc = "idle"
    /\ req' = [req EXCEPT ![r] =
          IF is_valid(form)
          THEN [pc |-> "Validated", flow |-> "ajax", xhr |-> xhr, form |-> form,
                meta |-> meta, obj |-> FormInstance(form, clock), resp |-> NoResponse]
          ELSE [pc |-> "ValidationFailed", flow |-> "ajax", xhr |-> xhr, form |-> form,
                meta |-> meta, obj |-> NewInstance(clock),
                resp |-> AjaxInvalid(form)]]
    /\ UNCHANGED <<news, home, clock, messages, nextId, mailLog, adm, siteContent, lastGet>>

\* views.contact_form_ajax: check the marker header, build the form, validate
contact_form_ajax(r, xhr, form, meta) ==
    /\ req[r].pc = "idle"
    /\ req' = [req EXCEPT ![r] =
          IF ~xhr
          THEN [pc |-> "Rejected", flow |-> "ajax", xhr |-> xhr, form |-> form, meta |-> meta,
                obj |-> NewInstance(0), resp |-> AjaxBadRequest]
          ELSE IF is_valid(form)
          THEN [pc |-> "Validated", flow |-> "ajax", xhr |-> xhr, form |-> form, meta |-> meta,
                obj |-> FormInstance(form, clock), resp |-> NoResponse]
          ELSE [pc |-> "ValidationFailed", flow |-> "ajax", xhr |-> xhr, form |-> form,
                meta |-> meta, obj |-> NewInstance(clock),
                resp |-> AjaxInvalid(form)]]
    /\ UNCHANGED <<news, home, clock, messages, nextId, mailLog, adm, siteContent, lastGet>>

\* form.save(commit=False); set ip_address and user_agent; contact_message.save()
Persist(r) ==
    /\ req[r].pc = "Validated"
    /\ LET obj == [req[r].obj EXCEPT !.ip_address = get_client_ip(req[r].meta),
                                     !.user_agent = req[r].meta.user_agent]
           table == SaveInsert(messages, obj, nextId, clock)
       IN /\ messages' = table
          /\ req' = [req EXCEPT ![r].pc = "Persisted", ![r].obj = table[Len(table)]]
    /\ nextId' = nextId + 1
    /\ UNCHANGED <<news, home, clock, mailLog, adm, siteContent, lastGet>>

\* mutant: the failed save leaves a row without ip_address and user_agent behind
PersistFails_partial(r) ==
    /\ req[r].pc = "Validated"
    /\ messages' = Append(messages, [req[r].obj EXCEPT !.pk = nextId])
    /\ req' = [req EXCEPT ![r].pc = "PersistenceFailed",
                          ![r].resp = ExceptionResponse(req[r].flow)]
    /\ nextId' = nextId + 1
    /\ UNCHANGED <<news, home, clock, mailLog, adm, siteContent, lastGet>>

\* contact_message.save() raises: the INSERT did not happen, the except branch
\* answers.  Whether the failed INSERT used up a key is the database's choice.
PersistFails(r) ==
    /\ req[r].pc = "Validated"
    /\ req' = [req EXCEPT ![r].pc = "PersistenceFailed",
                          ![r].resp = ExceptionResponse(req[r].flow)]
    /\ \E used \in {0, 1} : nextId' = nextId + used
    /\ UNCHANGED <<news, home, clock, messages, mailLog, adm, siteContent, lastGet>>

\* the notification send_contact_email_notification hands to send_mail
Notification(obj, outcome) ==
    [pk |-> obj.pk, subject |-> <<"New Contact Form Submission: ", obj.subject>>,
     outcome |-> outcome]

\* send_contact_email_notification returns; the success response follows
Notify(r) ==
    /\ req[r].pc = "Persisted"
    /\ mailLog' = Append(mailLog, Notification(req[r].obj, "sent"))
    /\ req' = [req EXCEPT ![r].pc = "Completed",
                          ![r].resp = SuccessResponse(req[r].flow)]
    /\ UNCHANGED <<news, home, clock, messages, nextId, adm, siteContent, lastGet>>

\* mutant: the failed notification undoes the insert
NotifyFails_rollback(r) ==
    /\ req[r].pc = "Persisted"
    /\ mailLog' = Append(mailLog, Notification(req[r].obj, "failed"))
    /\ LET kept(row) == row.pk # req[r].obj.pk IN messages' = SelectSeq(messages, kept)
    /\ req' = [req EXCEPT ![r].pc = "NotificationFailed",
                          ![r].resp = ExceptionResponse(req[r].flow)]
    /\ UNCHANGED <<news, home, clock, nextId, adm, siteContent, lastGet>>

\* mutant: the failed notification is logged and swallowed, the view answers
\* as after a delivered one
NotifyFails_swallowed(r) ==
    /\ req[r].pc = "Persisted"
    /\ mailLog' = Append(mailLog, Notification(req[r].obj, "failed"))
    /\ req' = [req EXCEPT ![r].pc = "NotificationFailed",
                          ![r].resp = SuccessResponse(req[r].flow)]
    /\ UNCHANGED <<news, home, clock, messages, nextId, adm, siteContent, lastGet>>

\* mutant: the failed notification is tried a second time
NotifyFails_retry(r) ==
    /\ req[r].pc = "Persisted"
    /\ mailLog' = mailLog \o <<Notification(req[r].obj, "failed"),
                               Notification(req[r].obj, "failed")>>
    /\ req' = [req EXCEPT ![r].pc = "NotificationFailed",
                          ![r].resp = ExceptionResponse(req[r].flow)]
    /\ UNCHANGED <<news, home, clock, messages, nextId, adm, siteContent, lastGet>>

\* send_contact_email_notification logs and re-raises; the view's except
\* branch answers
NotifyFails(r) ==
    /\ req[r].pc = "Persisted"
    /\ mailLog' = Append(mailLog, Notification(req[r].obj, "failed"))
    /\ req' = [req EXCEPT ![r].pc = "NotificationFailed",
                          ![r].resp = ExceptionResponse(req[r].flow)]
    /\ UNCHANGED <<news, home, clock, messages, nextId, adm, siteContent, lastGet>>

---------------------------------------------------------------------------
(* Admin operations on ContactMessage *)

\* ContactMessageAdmin.mark_as_read: queryset.update(is_read=True)
mark_as_read(sel) ==
    /\ messages' = QuerysetUpdate(messages, sel, "is_read", TRUE)
    /\ UNCHANGED <<news, home, clock, nextId, req, mailLog, adm, siteContent, lastGet>>

\* ContactMessageAdmin.mark_as_unread: queryset.update(is_read=False)
mark_as_unread(sel) ==
    /\ messages' = QuerysetUpdate(messages, sel, "is_read", FALSE)
    /\ UNCHANGED <<news, home, clock, nextId, req, mailLog, adm, siteContent, lastGet>>

\* ContactMessageAdmin.archive_messages: queryset.update(is_archived=True)
archive_messages(sel) ==
    /\ messages' = QuerysetUpdate(messages, sel, "is_archived", TRUE)
    /\ UNCHANGED <<news, home, clock, nextId, req, mailLog, adm, siteContent, lastGet>>

\* ContactMessageAdmin.unarchive_messages: queryset.update(is_archived=False)
unarchive_messages(sel) ==
    /\ messages' = QuerysetUpdate(messages, sel, "is_archived", FALSE)
    /\ UNCHANGED <<news, home, clock, nextId, req, mailLog, adm, siteContent, lastGet>>

\* the instance a per-object admin path works on: get_object(request, object_id)
\* in mark_read_view, a row of the change list's query in mark_as_read_action.
\* Both hold the row as it is when it is read; get_object gives None for an
\* unknown id and the view then does nothing.
LoadObject(a, pk) ==
    /\ adm[a].pc = "idle"
    /\ pk \in Pks(messages)
    /\ adm' = [adm EXCEPT ![a] = [pc |-> "loaded", obj |-> Row(messages, pk)]]
    /\ UNCHANGED <<news, home, clock, messages, nextId, req, mailLog, siteContent, lastGet>>

\* GKGroupModelAdmin.mark_read_view: obj.is_read = True; obj.save()
mark_read_view(a) ==
    /\ adm[a].pc = "loaded"
    /\ messages' = SaveUpdate(messages, [adm[a].obj EXCEPT !.is_read = TRUE], clock)
    /\ adm' = [adm EXCEPT ![a] = IdleAdmin]
    /\ UNCHANGED <<news, home, clock, nextId, req, mailLog, siteContent, lastGet>>

\* ContactMessageAdmin.mark_as_read_action: an unread row is set read and saved
mark_as_read_action(a) ==
    /\ adm[a].pc = "loaded"
    /\ messages' = IF ~adm[a].obj.is_read
                   THEN SaveUpdate(messages, [adm[a].obj EXCEPT !.is_read = TRUE], clock)
                   ELSE messages
    /\ adm' = [adm EXCEPT ![a] = IdleAdmin]
    /\ UNCHANGED <<news, home, clock, nextId, req, mailLog, siteContent, lastGet>>

---------------------------------------------------------------------------
(* The newsletter endpoint *)

UpperCase ==
    <<"A","B","C","D","E","F","G","H","I","J","K","L","M",
      "N","O","P","Q","R","S","T","U","V","W","X","Y","Z">>
LowerCase ==
    <<"a","b","c","d","e","f","g","h","i","j","k","l","m",
      "n","o","p","q","r","s","t","u","v","w","x","y","z">>

\* str.lower() on a text given as its characters
LowerChar(c) ==
    IF \E i \in DOMAIN UpperCase : UpperCase[i] = c
    THEN LowerCase[CHOOSE i \in DOMAIN UpperCase : UpperCase[i] = c]
    ELSE c
Lower(text) == [i \in DOMAIN text |-> LowerChar(text[i])]

\* str.strip(): leading and trailing whitespace removed
RECURSIVE LStrip(_)
LStrip(text) ==
    IF text # <<>> /\ Head(text) \in Whitespace THEN LStrip(Tail(text)) ELSE text
RECURSIVE RStrip(_)
RStrip(text) ==
    IF text # <<>> /\ text[Len(text)] \in Whitespace
    THEN RStrip(SubSeq(text, 1, Len(text) - 1))
    ELSE text
Strip(text) == RStrip(LStrip(text))

\* request.body: text json.loads rejects ("unparsable"); JSON that is no object
\* ("array"); an object whose email is no string ("object_number"); an object
\* with the email given as its characters, <<>> when the key is missing
Bodies ==
    { [kind |-> "unparsable", email |-> <<>>],
      [kind |-> "array", email |-> <<>>],
      [kind |-> "object_number", email |-> <<>>] }
    \cup { [kind |-> "object", email |-> e] :
             e \in { <<>>, <<" ">>, <<"a", "b">>, <<"@">>,
                     <<" ", "A", "@", "b", " ">> } }

NewsBadRequest ==
    [status |-> 400, kind |-> "bad_request", success |-> "none",
     message |-> "Invalid request", logged |-> <<>>]
\* json.JSONDecodeError is caught: JsonResponse with the default status
NewsInvalidFormat ==
    [status |-> 200, kind |-> "json", success |-> "false",
     message |-> "Invalid request format.", logged |-> <<>>]
NewsInvalidEmail ==
    [status |-> 200, kind |-> "json", success |-> "false",
     message |-> "Please enter a valid email address.", logged |-> <<>>]
NewsSubscribed(email) ==
    [status |-> 200, kind |-> "json", success |-> "true",
     message |-> "Thank you for subscribing to our newsletter!", logged |-> email]
\* data.get or .strip() raises AttributeError, which no except clause catches:
\* the server's fault handler answers
NewsServerError ==
    [status |-> 500, kind |-> "server_error", success |-> "none",
     message |-> "", logged |-> <<>>]

\* mutant: the JSONDecodeError branch answers with a client error
NewsResponse_badRequestOnDecodeError(xhr, body) ==
    IF ~xhr THEN NewsBadRequest
    ELSE IF body.kind = "unparsable" THEN NewsBadRequest
    ELSE IF body.kind # "object" THEN NewsServerError
    ELSE LET email == Lower(Strip(body.email)) IN
         IF email = <<>> \/ \A i \in DOMAIN email : email[i] # "@"
         THEN NewsInvalidEmail
         ELSE NewsSubscribed(email)

\* views.newsletter_subscribe: the answer to a POST
NewsResponse(xhr, body) ==
    IF ~xhr THEN NewsBadRequest
    ELSE IF body.kind = "unparsable" THEN NewsInvalidFormat
    ELSE IF body.kind # "object" THEN NewsServerError
    ELSE LET email == Lower(Strip(body.email)) IN
         IF email = <<>> \/ \A i \in DOMAIN email : email[i] # "@"
         THEN NewsInvalidEmail
         ELSE NewsSubscribed(email)

newsletter_subscribe(r, xhr, body) ==
    /\ news[r].pc = "idle"
    /\ news' = [news EXCEPT ![r] = [pc |-> "done", xhr |-> xhr, body |-> body,
                                    resp |-> NewsResponse(xhr, body)]]
    /\ UNCHANGED <<home, clock, messages, nextId, req, mailLog, adm, siteContent, lastGet>>

NextNewsletter ==
    \E r \in Reqs, xhr \in BOOLEAN, body \in Bodies : newsletter_subscribe(r, xhr, body)

SpecNewsletter == Init /\ [][NextNewsletter]_vars

\* time passes
Tick ==
    /\ clock < MaxTime
    /\ clock' = clock + 1
    /\ UNCHANGED <<news, home, messages, nextId, req, mailLog, adm, siteContent, lastGet>>

ContactPost == \E r \in Reqs, form \in Forms : contact(r, form, MetaOf(form))
AjaxPost ==
    \E r \in Reqs, xhr \in BOOLEAN, form \in Forms :
        contact_form_ajax(r, xhr, form, MetaOf(form))

\* The pipeline: concurrent submissions at one instant, no admin activity
Next ==
    \/ ContactPost
    \/ AjaxPost
    \/ \E r \in Reqs : Persist(r)
    \/ \E r \in Reqs : PersistFails(r)
    \/ \E r \in Reqs : Notify(r)
    \/ \E r \in Reqs : NotifyFails(r)

Spec == Init /\ [][Next]_vars

\* The message store: rows created by the page flow, then the admin operations
\* on them.  The notification step is left out: it does not touch the table.
StoreReqs == 1..MaxRows
StoreForm == CHOOSE form \in ValidForms : form.subject = ""
\* the rows ticked in the change list when a bulk action is run
Selections == SUBSET Pks(messages) \ {{}}

NextStore ==
    \/ \E r \in StoreReqs : contact(r, StoreForm, MetaOf(StoreForm))
    \/ \E r \in StoreReqs : Persist(r)
    \/ \E sel \in Selections : mark_as_read(sel)
    \/ \E sel \in Selections : mark_as_unread(sel)
    \/ \E sel \in Selections : archive_messages(sel)
    \/ \E sel \in Selections : unarchive_messages(sel)
    \/ \E a \in Admins, pk \in Pks(messages) : LoadObject(a, pk)
    \/ \E a \in Admins : mark_read_view(a)
    \/ \E a \in Admins : mark_as_read_action(a)
    \/ Tick

SpecStore == Init /\ [][NextStore]_vars

\* The pipeline while time passes
NextCreate ==
    \/ \E r \in StoreReqs, form \in Forms : contact(r, form, MetaOf(form))
    \/ \E r \in StoreReqs, xhr \in BOOLEAN, form \in Forms :
          contact_form_ajax(r, xhr, form, MetaOf(form))
    \/ \E r \in StoreReqs : Persist(r)
    \/ \E r \in StoreReqs : PersistFails(r)
    \/ \E r \in StoreReqs : Notify(r)
    \/ \E r \in StoreReqs : NotifyFails(r)
    \/ Tick

SpecCreate == Init /\ [][NextCreate]_vars

---------------------------------------------------------------------------
(* The content store *)

\* SiteContent.CONTENT_TYPES
ContentTypes ==
    {"hero_title", "hero_subtitle", "about_text", "contact_info",
     "meta_description", "footer_text", "announcement"}

\* the keys the admin stores rows for, and the keys the views ask for
StoredKeys == {"hero_title", "contact_info"}
AskedKeys == StoredKeys \cup {"about_text"}
Contents == {"Welcome to Palakkad", "Open 9 to 6"}
\* default=None, or the text a view passes
Defaults == {"None", "Welcome to GK Group"}

\* mutant: the lookup without the is_active filter
get_content_any(table, content_type, default) ==
    LET found == {row \in table : row.content_type = content_type}
    IN IF found = {} THEN default ELSE (CHOOSE row \in found : TRUE).content

\* SiteContent.get_content: objects.get(content_type=..., is_active=True);
\* DoesNotExist gives the default, MultipleObjectsReturned is not caught
get_content(table, content_type, default) ==
    LET found == {row \in table : row.content_type = content_type /\ row.is_active}
    IN IF found = {} THEN default
       ELSE IF Cardinality(found) > 1 THEN "MultipleObjectsReturned"
       ELSE (CHOOSE row \in found : TRUE).content

\* a view renders a page: index, about and contact call get_content
RenderContent(key, default) ==
    /\ lastGet' = [called |-> TRUE, key |-> key, default |-> default,
                   result |-> get_content(siteContent, key, default)]
    /\ UNCHANGED <<news, home, clock, messages, nextId, req, mailLog, adm, siteContent>>

\* SiteContentAdmin, add form: content_type is unique
SiteContentAdd(key, content, active) ==
    /\ \A row \in siteContent : row.content_type # key
    /\ siteContent' = siteContent \cup
          {[content_type |-> key, content |-> content, is_active |-> active]}
    /\ UNCHANGED <<news, home, clock, messages, nextId, req, mailLog, adm, lastGet>>

\* SiteContentAdmin, change form and the editable is_active column
SiteContentChange(row, content, active) ==
    /\ row \in siteContent
    /\ siteContent' = (siteContent \ {row}) \cup
          {[content_type |-> row.content_type, content |-> content,
            is_active |-> active]}
    /\ UNCHANGED <<news, home, clock, messages, nextId, req, mailLog, adm, lastGet>>

\* SiteContentAdmin, the admin's delete action
SiteContentDelete(row) ==
    /\ row \in siteContent
    /\ siteContent' = siteContent \ {row}
    /\ UNCHANGED <<news, home, clock, messages, nextId, req, mailLog, adm, lastGet>>

NextContent ==
    \/ \E key \in AskedKeys, default \in Defaults : RenderContent(key, default)
    \/ \E key \in StoredKeys, content \in Contents, active \in BOOLEAN :
          SiteContentAdd(key, content, active)
    \/ \E row \in siteContent, content \in Contents, active \in BOOLEAN :
          SiteContentChange(row, content, active)
    \/ \E row \in siteContent : SiteContentDelete(row)

SpecContent == Init /\ [][NextContent]_vars

---------------------------------------------------------------------------
(* The home page *)

HeroTitleDefault == "Welcome to GK Group"
Tagline == "Quality You Trust. Service with Commitment."

\* ContactMessage.objects.filter(is_read=False).count()
UnreadCount(table) == Cardinality({i \in DOMAIN table : ~table[i].is_read})

\* views.index: two get_content calls and the count of unread messages
index ==
    /\ home' = [rendered |-> TRUE,
                hero_title |-> get_content(siteContent, "hero_title", HeroTitleDefault),
                hero_subtitle |-> get_content(siteContent, "hero_subtitle", Tagline),
                recent_messages_count |-> UnreadCount(messages)]
    /\ lastGet' = [called |-> TRUE, key |-> "hero_subtitle", default |-> Tagline,
                   result |-> get_content(siteContent, "hero_subtitle", Tagline)]
    /\ UNCHANGED <<news, clock, messages, nextId, req, mailLog, adm, siteContent>>

\* The message store with the pages that display it: the home page and the
\* change list, whose list_display ends with the mark_as_read_action column.
\* The bulk actions of the change list are the explicit toggles.
NextDisplay ==
    \/ \E r \in StoreReqs : contact(r, StoreForm, MetaOf(StoreForm))
    \/ \E r \in StoreReqs : Persist(r)
    \/ \E sel \in Selections : mark_as_read(sel)
    \/ \E sel \in Selections : mark_as_unread(sel)
    \/ \E sel \in Selections : archive_messages(sel)
    \/ \E sel \in Selections : unarchive_messages(sel)
    \/ \E a \in Admins, pk \in Pks(messages) : LoadObject(a, pk)
    \/ \E a \in Admins : mark_as_read_action(a)
    \/ index
    \/ Tick

SpecDisplay == Init /\ [][NextDisplay]_vars

---------------------------------------------------------------------------
(* Validation of the name and the message of a submission *)

MaxNameLen == 3  \* characters of a submitted name

\* the characters a submitted name is made of: letters, a space, a period,
\* a digit, a symbol and a tab
NameAlphabet == {"a", "Z", " ", ".", "1", "@", "\t"}
\* every name of these characters, whitespace between other characters only:
\* whether whitespace around a name is removed before the validators run is
\* decided by the form class
Names ==
    {name \in UNION {[1..n -> NameAlphabet] : n \in 0..MaxNameLen} :
        Strip(name) = name}

\* lengths of a submitted message, around both limits of the field
MessageLengths ==
    {0, MessageMinLength - 1, MessageMinLength, MessageMinLength + 1,
     MessageMaxLength - 1, MessageMaxLength, MessageMaxLength + 1}
MessageOfLength(n) == [text |-> "message text", length |-> n]

\* request.POST: the minimal submission with every name, and with every
\* message length under a valid and under an invalid name
ValidateForms ==
    {[StoreForm EXCEPT !.name = name] : name \in Names}
    \cup {[StoreForm EXCEPT !.name = name, !.message = MessageOfLength(n)] :
            name \in {John, <<"a", "1", "Z">>}, n \in MessageLengths}

\* one submission is validated on its own
ValidateReqs == {1}

NextValidate ==
    \/ \E r \in ValidateReqs, form \in ValidateForms : contact(r, form, MetaOf(form))
    \/ \E r \in ValidateReqs, xhr \in BOOLEAN, form \in ValidateForms :
          contact_form_ajax(r, xhr, form, MetaOf(form))
    \/ \E r \in ValidateReqs : Persist(r)
    \/ \E r \in ValidateReqs : Notify(r)

SpecValidate == Init /\ [][NextValidate]_vars

---------------------------------------------------------------------------
(* Properties *)

\* the requests whose contact_message.save() returned
PersistedStates == {"Persisted", "Completed", "NotificationFailed"}
Saved(r) == req[r].pc \in PersistedStates
Stored(obj) == \E i \in DOMAIN messages : messages[i] = obj
MailsFor(pk) == {i \in DOMAIN mailLog : mailLog[i].pk = pk}

\* C1: in both flows, when the notification fails after the submission was
\* saved, the saved ContactMessage is still in the table, as it was saved,
\* once the request has been answered.
C1_NotRolledBack ==
    \A r \in Reqs :
        req[r].pc = "NotificationFailed" =>
            /\ req[r].obj.pk # 0
            /\ Stored(req[r].obj)

C1_Witness ==
    \E r1, r2 \in Reqs :
        /\ req[r1].pc = "NotificationFailed" /\ req[r1].flow = "page"
        /\ req[r2].pc = "NotificationFailed" /\ req[r2].flow = "ajax"
        /\ Len(messages) = 2

C3_InvalidNotStored ==
    /\ \A r \in Reqs :
          (req[r].form \in InvalidForms /\ req[r].pc \notin {"idle", "Rejected"}) =>
              /\ req[r].pc = "ValidationFailed"
              /\ req[r].obj.pk = 0
              /\ req[r].resp.errors # {}
              /\ \A field \in req[r].resp.errors :
                    field \in {"name", "email", "phone", "message", "interest_area"}
              /\ req[r].flow = "ajax" =>
                    req[r].resp.kind = "json" /\ req[r].resp.success = "false"
              /\ req[r].flow = "page" =>
                    req[r].resp.kind = "render" /\ req[r].resp.flash = "error"
    /\ \A i \in DOMAIN messages :
          \E r \in Reqs : /\ req[r].form \in ValidForms
                          /\ req[r].obj.pk = messages[i].pk
    /\ \A i \in DOMAIN mailLog :
          \E r \in Reqs : /\ req[r].form \in ValidForms
                          /\ req[r].obj.pk = mailLog[i].pk

C3_Witness ==
    \E r1, r2 \in Reqs :
        /\ req[r1].pc = "ValidationFailed" /\ req[r1].flow = "ajax"
        /\ req[r1].resp.errors = {"name", "message"}
        /\ req[r2].pc = "ValidationFailed" /\ req[r2].flow = "page"
        /\ messages = <<>> /\ mailLog = <<>>

\* C4: within a request the steps are validate, persist, notify, respond: a
\* notification is dispatched only for a row that is in the table, nothing is
\* answered before the dispatch, and every saved submission gets exactly one
\* dispatch attempt, whether it is delivered or fails.
C4_OneDispatchAfterPersist ==
    /\ \A i \in DOMAIN mailLog : mailLog[i].pk \in Pks(messages)
    /\ \A r \in Reqs :
          /\ req[r].pc = "Validated" =>
                req[r].obj.pk = 0 /\ req[r].resp = NoResponse
          /\ req[r].pc = "Persisted" =>
                /\ Stored(req[r].obj)
                /\ MailsFor(req[r].obj.pk) = {}
                /\ req[r].resp = NoResponse
          /\ req[r].pc \in {"Completed", "NotificationFailed"} =>
                /\ Cardinality(MailsFor(req[r].obj.pk)) = 1
                /\ req[r].resp # NoResponse
          /\ ~Saved(r) => MailsFor(req[r].obj.pk) = {}
    /\ Len(mailLog) =
          Cardinality({r \in Reqs : req[r].pc \in {"Completed", "NotificationFailed"}})

C4_Witness ==
    \E r1, r2 \in Reqs :
        /\ req[r1].pc = "NotificationFailed"
        /\ req[r2].pc = "Completed"
        /\ Len(mailLog) = 2
        /\ mailLog[1].outcome = "failed" /\ mailLog[2].outcome = "sent"

\* C5: when saving a validated submission fails, the table holds no row of
\* it, complete or partial, no notification is dispatched for it, and the
\* caller gets only the generic failure (error flash in the page flow,
\* success = false with the fixed message and nothing else in the AJAX flow).
C5_FailedSaveLeavesNothing ==
    /\ \A r \in Reqs :
          req[r].pc = "PersistenceFailed" =>
              /\ req[r].obj.pk = 0
              /\ req[r].flow = "page" =>
                    /\ req[r].resp.kind = "render"
                    /\ req[r].resp.flash = "error"
                    /\ req[r].resp.message = PageSorryMessage
              /\ req[r].flow = "ajax" =>
                    /\ req[r].resp.kind = "json"
                    /\ req[r].resp.success = "false"
                    /\ req[r].resp.message = AjaxSorryMessage
                    /\ req[r].resp.errors = {}
    /\ \A i \in DOMAIN messages : \E r \in Reqs : Saved(r) /\ req[r].obj = messages[i]
    /\ Len(messages) = Cardinality({r \in Reqs : Saved(r)})
    /\ \A i \in DOMAIN mailLog : \E r \in Reqs : Saved(r) /\ req[r].obj.pk = mailLog[i].pk

C5_Witness ==
    \E r1, r2 \in Reqs :
        /\ req[r1].pc = "PersistenceFailed" /\ req[r1].flow = "page"
        /\ req[r2].pc = "PersistenceFailed" /\ req[r2].flow = "ajax"
        /\ req[r1].form \in ValidForms /\ req[r2].form \in ValidForms
        /\ messages = <<>> /\ mailLog = <<>>

\* C6: whatever is done to a ContactMessage (creation, the per-object saves,
\* the bulk actions), its created_at stays as it was at creation and its
\* updated_at never decreases.
C6_CreatedFixedUpdatedMonotone ==
    [][ /\ Len(messages') >= Len(messages)
        /\ \A i \in DOMAIN messages :
              /\ messages'[i].pk = messages[i].pk
              /\ messages'[i].created_at = messages[i].created_at
              /\ messages'[i].updated_at >= messages[i].updated_at ]_vars

C6_Witness ==
    \E i \in DOMAIN messages :
        /\ messages[i].is_read
        /\ messages[i].is_archived
        /\ messages[i].updated_at > messages[i].created_at

\* C7 as claimed: every step that changes is_read or is_archived of a row
\* sets that row's updated_at to the time of the step.
C7_RefreshedOnEveryMutation ==
    [][ \A i \in DOMAIN messages :
            ( \/ messages'[i].is_read # messages[i].is_read
              \/ messages'[i].is_archived # messages[i].is_archived )
            => messages'[i].updated_at = clock ]_vars

\* C8 as claimed: the row a valid submission created has every submitted
\* field unchanged and its created_at equals its updated_at.
SubmittedFieldsKept(form, row) ==
    /\ row.name = form.name
    /\ row.email = form.email
    /\ row.phone = form.phone
    /\ row.message = form.message
    /\ form.subject # "" => row.subject = form.subject
    /\ form.interest_area # "" => row.interest_area = form.interest_area

C8_CreatedEqualsUpdated ==
    \A r \in Reqs :
        Saved(r) =>
            LET row == Row(messages, req[r].obj.pk) IN
            /\ SubmittedFieldsKept(req[r].form, row)
            /\ row.created_at = row.updated_at

\* C8 as amended: the row a valid submission created, looked up by its id, has
\* every submitted field unchanged (an omitted subject is "General Inquiry",
\* an omitted interest area "general"), and its created_at, read when the
\* instance is built, is not later than its updated_at, read when it is saved.
C8_CreatedNotAfterUpdated ==
    \A r \in Reqs :
        Saved(r) =>
            /\ req[r].obj.pk \in Pks(messages)
            /\ LET row == Row(messages, req[r].obj.pk) IN
               /\ SubmittedFieldsKept(req[r].form, row)
               /\ req[r].form.subject = "" => row.subject = "General Inquiry"
               /\ req[r].form.interest_area = "" => row.interest_area = "general"
               /\ row.created_at <= row.updated_at

C8_Witness ==
    \E r \in Reqs :
        /\ Saved(r)
        /\ req[r].form.subject # ""
        /\ Row(messages, req[r].obj.pk).created_at < Row(messages, req[r].obj.pk).updated_at

\* C9: accepted submissions are neither deduplicated nor do they collide: the
\* table holds one row per submission whose save succeeded, also for equal
\* content and for concurrent requests, and no two rows share an id.
C9_OneRowPerAcceptedSubmission ==
    /\ Len(messages) = Cardinality({r \in Reqs : Saved(r)})
    /\ \A i, j \in DOMAIN messages : i # j => messages[i].pk # messages[j].pk
    /\ \A r \in Reqs : Saved(r) => Cardinality(RowsOf(messages, req[r].obj.pk)) = 1

C9_Witness ==
    \E r1, r2 \in Reqs :
        /\ r1 # r2
        /\ Saved(r1) /\ Saved(r2)
        /\ req[r1].form = req[r2].form
        /\ Len(messages) = 2
        /\ messages[1].pk # messages[2].pk

\* C10: get_content(key, default) returns the stored content when a row for
\* key exists with is_active = true, returns default when there is no row for
\* key or the row is inactive, and leaves the table as it is.
C10_GetContent ==
    [][ lastGet' # lastGet =>
          /\ siteContent' = siteContent
          /\ lastGet'.called
          /\ \A row \in siteContent :
                (row.content_type = lastGet'.key /\ row.is_active)
                    => lastGet'.result = row.content
          /\ (\A row \in siteContent :
                 row.content_type # lastGet'.key \/ ~row.is_active)
                => lastGet'.result = lastGet'.default ]_vars

C10_Witness ==
    /\ lastGet.called
    /\ lastGet.result = lastGet.default
    /\ \E row \in siteContent : row.content_type = lastGet.key /\ ~row.is_active

\* C11: a POST to the AJAX endpoint without the X-Requested-With:
\* XMLHttpRequest marker is answered with a client error before the form is
\* looked at: whatever the form data, no ContactMessage is created and no
\* notification is dispatched for it; with the marker, every answer is a
\* structured payload with success and message.
C11_MarkerRequired ==
    /\ \A r \in Reqs :
          (req[r].flow = "ajax" /\ ~req[r].xhr) =>
              /\ req[r].pc = "Rejected"
              /\ req[r].resp.kind = "bad_request"
              /\ req[r].resp.errors = {}
              /\ req[r].obj.pk = 0
    /\ \A r \in Reqs :
          (req[r].flow = "ajax" /\ req[r].xhr /\ req[r].resp # NoResponse) =>
              /\ req[r].resp.kind = "json"
              /\ req[r].resp.success \in {"true", "false"}
              /\ req[r].resp.message # ""
    /\ \A i \in DOMAIN messages :
          \E r \in Reqs : /\ req[r].obj.pk = messages[i].pk
                          /\ req[r].flow = "ajax" => req[r].xhr
    /\ \A i \in DOMAIN mailLog :
          \E r \in Reqs : /\ req[r].obj.pk = mailLog[i].pk
                          /\ req[r].flow = "ajax" => req[r].xhr

C11_Witness ==
    \E r1, r2 \in Reqs :
        /\ req[r1].pc = "Rejected" /\ ~req[r1].xhr
        /\ req[r1].form \in ValidForms
        /\ req[r2].pc = "Rejected" /\ req[r2].form \in InvalidForms
        /\ messages = <<>> /\ mailLog = <<>>

C13_DisplayLeavesRecordsUnchanged ==
    [][ ((\E a \in Admins : mark_as_read_action(a)) \/ index)
            => messages' = messages ]_vars

\* the persisted requests of the validation runs, and what they answered
NameErrorNotStored(r) ==
    /\ req[r].pc = "ValidationFailed"
    /\ "name" \in req[r].resp.errors
    /\ req[r].obj.pk = 0
    /\ \A i \in DOMAIN messages : messages[i].name # req[r].form.name
Handled(r) == req[r].pc \notin {"idle", "Rejected"}

C16_MarkReadKeepsArchived ==
    [][ (\E a \in Admins : mark_read_view(a) \/ mark_as_read_action(a))
            => \A i \in DOMAIN messages :
                  messages'[i].is_archived = messages[i].is_archived ]_vars

=============================================================================
